---- MODULE Spec2Model ----
(***************************************************************************)
(* Model of the Colab App Store: the core (scripts/app_store_core.py) with *)
(* its heuristic classifier, repository scanner, catalogue and category    *)
(* organizer, and the callbacks of the three front-ends (gradio_ui.py,     *)
(* ipy_widgets_ui.py, panel_ui.py) that drive it.                          *)
(***************************************************************************)
EXTENDS Integers, Sequences, FiniteSets, TLC

VARIABLES
    repo_exists,   \* whether self.repo_path exists on disk
    tree,          \* the directory entries below self.repo_path
    denied,        \* directories whose probing raises (PermissionError)
    apps,          \* self.apps, the catalogue
    last_op,       \* the operation that produced the current state
    call,          \* one call of a pure classifier function and its result
    repo_abs,      \* whether self.repo_path was given as an absolute path
    cat_dirs,      \* the category folders that exist below self.base_path
    targets,       \* the entries inside the category folders
    org,           \* what the last organize call did and returned
    ui,            \* the front-end that drives the core
    selector,      \* app_selector: its options and its value
    filters,       \* the values of the search box and the two filter widgets
    selected_app,  \* self.selected_app of the front-end
    outcome,       \* how the last front-end callback ended
    buttons,       \* which buttons of the front-end can be clicked
    effect         \* what the last per-app callback used, started and reported

\* the state of the organizer's side of the disk
orgVars == <<repo_abs, cat_dirs, targets, org>>
\* the state of the front-end
uiVars == <<ui, selector, filters, selected_app, outcome, buttons, effect>>

vars == <<repo_exists, tree, denied, apps, last_op, call, orgVars, uiVars>>

----------------------------------------------------------------------------
(* Bounds *)

\* number of tokens a generated file or app name is built from
MaxParts == 2
\* number of directory entries the repository tree holds at once
MaxFiles == 3
\* number of directories whose probing raises at once
MaxDenied == 1

----------------------------------------------------------------------------
(* Python str and pathlib.PurePath primitives *)

Char(s, i) == SubSeq(s, i, i)

UpperAlpha == "ABCDEFGHIJKLMNOPQRSTUVWXYZ"
LowerAlpha == "abcdefghijklmnopqrstuvwxyz"

\* code-point order of the characters that occur in the model's names
Ascii == "-./0123456789ABCDEFGHIJKLMNOPQRSTUVWXYZ_abcdefghijklmnopqrstuvwxyz"

Code(c) == CHOOSE i \in 1..Len(Ascii) : Char(Ascii, i) = c

LowerChar(c) ==
    IF \E i \in 1..Len(UpperAlpha) : Char(UpperAlpha, i) = c
    THEN Char(LowerAlpha, CHOOSE i \in 1..Len(UpperAlpha) : Char(UpperAlpha, i) = c)
    ELSE c

RECURSIVE Lower(_)
\* str.lower()
Lower(s) ==
    IF s = "" THEN "" ELSE LowerChar(Char(s, 1)) \o Lower(SubSeq(s, 2, Len(s)))

\* Python's `sub in s`
Contains(sub, s) ==
    \E i \in 1..(Len(s) - Len(sub) + 1) : SubSeq(s, i, i + Len(sub) - 1) = sub

\* str.rfind('.') + 1, i.e. the 1-based position of the last dot, 0 if none
RFindDot(s) ==
    IF \E i \in 1..Len(s) : Char(s, i) = "."
    THEN CHOOSE i \in 1..Len(s) :
            /\ Char(s, i) = "."
            /\ \A j \in (i+1)..Len(s) : Char(s, j) # "."
    ELSE 0

\* PurePath.suffix of a final path component
Suffix(name) ==
    LET i == RFindDot(name)
    IN  IF 1 < i /\ i < Len(name) THEN SubSeq(name, i, Len(name)) ELSE ""

\* PurePath.stem of a final path component
Stem(name) ==
    LET i == RFindDot(name)
    IN  IF 1 < i /\ i < Len(name) THEN SubSeq(name, 1, i - 1) ELSE name

RECURSIVE StrLess(_, _)
\* Python's str.__lt__: lexicographic by code point
StrLess(a, b) ==
    IF b = "" THEN FALSE
    ELSE IF a = "" THEN TRUE
    ELSE IF Char(a, 1) # Char(b, 1) THEN Code(Char(a, 1)) < Code(Char(b, 1))
    ELSE StrLess(SubSeq(a, 2, Len(a)), SubSeq(b, 2, Len(b)))

----------------------------------------------------------------------------
(* Heuristic classifier *)

\* mutant: the jupyter entry moved to the end of the table
app_indicators_jupyter_last == <<
    [type |-> "streamlit", indicators |-> <<"streamlit", "app.py", "streamlit_app.py">>],
    [type |-> "gradio",    indicators |-> <<"gradio", "app.py", "gradio_app.py">>],
    [type |-> "flask",     indicators |-> <<"flask", "app.py", "main.py", "wsgi.py">>],
    [type |-> "fastapi",   indicators |-> <<"fastapi", "main.py", "app.py">>],
    [type |-> "panel",     indicators |-> <<"panel", "app.py", "panel_app.py">>],
    [type |-> "dash",      indicators |-> <<"dash", "app.py", "index.py">>],
    [type |-> "plotly",    indicators |-> <<"plotly", "app.py">>],
    [type |-> "python",    indicators |-> <<"main.py", "run.py", "app.py">>],
    [type |-> "jupyter",   indicators |-> <<".ipynb">>] >>

\* app_indicators, in dict insertion order
app_indicators == <<
    [type |-> "streamlit", indicators |-> <<"streamlit", "app.py", "streamlit_app.py">>],
    [type |-> "gradio",    indicators |-> <<"gradio", "app.py", "gradio_app.py">>],
    [type |-> "flask",     indicators |-> <<"flask", "app.py", "main.py", "wsgi.py">>],
    [type |-> "fastapi",   indicators |-> <<"fastapi", "main.py", "app.py">>],
    [type |-> "jupyter",   indicators |-> <<".ipynb">>],
    [type |-> "panel",     indicators |-> <<"panel", "app.py", "panel_app.py">>],
    [type |-> "dash",      indicators |-> <<"dash", "app.py", "index.py">>],
    [type |-> "plotly",    indicators |-> <<"plotly", "app.py">>],
    [type |-> "python",    indicators |-> <<"main.py", "run.py", "app.py">> ] >>

\* the test of the inner loop: indicator in file_name or indicator == suffix
IndicatorHits(indicator, file_name, suffix) ==
    Contains(indicator, file_name) \/ indicator = suffix

RECURSIVE DetectLoop(_, _, _, _)
\* the two nested for loops of detect_app_type, from entry t, indicator k
DetectLoop(t, k, file_name, suffix) ==
    IF t > Len(app_indicators) THEN "unknown"
    ELSE IF k > Len(app_indicators[t].indicators)
         THEN DetectLoop(t + 1, 1, file_name, suffix)
    ELSE IF IndicatorHits(app_indicators[t].indicators[k], file_name, suffix)
         THEN app_indicators[t].type
    ELSE DetectLoop(t, k + 1, file_name, suffix)

\* mutant: the file name is not lowercased
DetectAppTypeCaseSensitive(name) == DetectLoop(1, 1, name, Suffix(name))

\* detect_app_type(file_path), given file_path.name
DetectAppType(name) == DetectLoop(1, 1, Lower(name), Suffix(name))

web_dev_keywords == <<"web", "site", "html", "css", "js", "javascript", "react",
                      "vue", "angular", "flask", "fastapi", "django">>
data_science_keywords == <<"data", "analytics", "visualization", "pandas", "numpy",
                           "matplotlib", "seaborn", "plotly", "tableau">>
ml_keywords == <<"ml", "machine", "learning", "train", "model", "tensorflow",
                 "pytorch", "sklearn", "xgboost", "lightgbm">>
cv_keywords == <<"cv", "vision", "image", "video", "object", "detection",
                 "segmentation", "yolo", "mask", "rcnn">>
nlp_keywords == <<"nlp", "text", "language", "sentence", "word", "token", "bert",
                  "gpt", "transformer", "spacy">>
genai_keywords == <<"genai", "generative", "ai", "llm", "diffusion", "stable",
                    "midjourney", "dalle", "chatgpt">>

\* any(keyword in app_name_lower for keyword in keywords)
AnyKeyword(keywords, app_name_lower) ==
    \E k \in 1..Len(keywords) : Contains(keywords[k], app_name_lower)

\* the dict type_to_category
type_to_category ==
    [t \in {"streamlit", "gradio", "flask", "fastapi", "jupyter", "panel",
            "dash", "plotly", "python"} |->
        CASE t \in {"streamlit", "gradio", "flask", "fastapi"} -> "1-Web-Development"
          [] t \in {"jupyter", "panel", "dash", "plotly"}      -> "2-Data-Science"
          [] OTHER                                             -> "3-Machine-Learning"]

\* mutant: the default of the lookup is the first category
TypeDefaultWeb(app_type) ==
    IF app_type \in DOMAIN type_to_category
    THEN type_to_category[app_type]
    ELSE "1-Web-Development"

\* mutant: the lookup has no default, an absent type yields None
TypeDefaultNone(app_type) ==
    IF app_type \in DOMAIN type_to_category
    THEN type_to_category[app_type]
    ELSE "None"

\* type_to_category.get(app_type, '3-Machine-Learning')
TypeDefault(app_type) ==
    IF app_type \in DOMAIN type_to_category
    THEN type_to_category[app_type]
    ELSE "3-Machine-Learning"

\* mutant: the type table is consulted before the name keywords
DetermineCategoryTypeFirst(app_name, app_type) ==
    LET app_name_lower == Lower(app_name)
    IN  IF app_type \in DOMAIN type_to_category THEN type_to_category[app_type]
        ELSE IF AnyKeyword(web_dev_keywords, app_name_lower) THEN "1-Web-Development"
        ELSE IF AnyKeyword(data_science_keywords, app_name_lower) THEN "2-Data-Science"
        ELSE IF AnyKeyword(ml_keywords, app_name_lower) THEN "3-Machine-Learning"
        ELSE IF AnyKeyword(cv_keywords, app_name_lower) THEN "4-Computer-Vision"
        ELSE IF AnyKeyword(nlp_keywords, app_name_lower) THEN "5-Natural-Language-Processing"
        ELSE IF AnyKeyword(genai_keywords, app_name_lower) THEN "6-Generative-AI"
        ELSE "3-Machine-Learning"

\* determine_category(app_name, app_type)
DetermineCategory(app_name, app_type) ==
    LET app_name_lower == Lower(app_name)
    IN  IF AnyKeyword(web_dev_keywords, app_name_lower) THEN "1-Web-Development"
        ELSE IF AnyKeyword(data_science_keywords, app_name_lower) THEN "2-Data-Science"
        ELSE IF AnyKeyword(ml_keywords, app_name_lower) THEN "3-Machine-Learning"
        ELSE IF AnyKeyword(cv_keywords, app_name_lower) THEN "4-Computer-Vision"
        ELSE IF AnyKeyword(nlp_keywords, app_name_lower) THEN "5-Natural-Language-Processing"
        ELSE IF AnyKeyword(genai_keywords, app_name_lower) THEN "6-Generative-AI"
        ELSE TypeDefault(app_type)

----------------------------------------------------------------------------
(* The repository tree on disk *)

\* self.repo_path.name for the default repo_path "Ipynb-okio"
RepoName == "Ipynb-okio"

\* the directory entries the environment can put below self.repo_path:
\* dir is the chain of directories from the root, kind tells files from
\* directories, size is st_size
EntryPool == {
    [dir |-> <<>>,             name |-> "app.py",           kind |-> "file", size |-> 1536],
    [dir |-> <<>>,             name |-> "pkg.py",           kind |-> "dir",  size |-> 0],
    [dir |-> <<"webdata">>,    name |-> "main.py",          kind |-> "file", size |-> 10],
    [dir |-> <<"webdata">>,    name |-> "streamlit_app.py", kind |-> "file", size |-> 20],
    [dir |-> <<"Ipynb-okio">>, name |-> "model.ipynb",      kind |-> "file", size |-> 2048],
    [dir |-> <<"Zeta">>,       name |-> "util.py",          kind |-> "file", size |-> 0],
    [dir |-> <<"Zeta">>,       name |-> "requirements.txt", kind |-> "file", size |-> 7] }

\* further entries of one app directory: the manifests that
\* has_requirements_file looks for
ManifestPool == {
    [dir |-> <<"Zeta">>, name |-> "environment.yml", kind |-> "file", size |-> 3],
    [dir |-> <<"Zeta">>, name |-> "pyproject.toml",  kind |-> "file", size |-> 4],
    [dir |-> <<"Zeta">>, name |-> "setup.py",        kind |-> "file", size |-> 5] }

\* a file at the root that gets the name and the category of
\* Ipynb-okio/model.ipynb
TwinPool == {
    [dir |-> <<>>, name |-> "model.py", kind |-> "file", size |-> 30] }

\* every entry the tree can hold
AllEntries == EntryPool \cup ManifestPool \cup TwinPool

\* the directories that hold an entry of the tree
DirsOf(t) == {e.dir : e \in t}

RECURSIVE PathStr(_)
\* str(path) of a directory below the root
PathStr(dir) ==
    IF dir = <<>> THEN RepoName
    ELSE PathStr(SubSeq(dir, 1, Len(dir) - 1)) \o "/" \o dir[Len(dir)]

\* str(file_path)
FilePathStr(e) == PathStr(e.dir) \o "/" \o e.name

\* file_path.parent.name
ParentName(e) == IF e.dir = <<>> THEN RepoName ELSE e.dir[Len(e.dir)]

\* whether directory d is dir or lies below it
IsUnder(d, dir) == Len(d) >= Len(dir) /\ SubSeq(d, 1, Len(dir)) = dir

----------------------------------------------------------------------------
(* Filesystem prober *)

RECURSIVE SumSizes(_)
SumSizes(S) ==
    IF S = {} THEN 0
    ELSE LET e == CHOOSE x \in S : TRUE IN e.size + SumSizes(S \ {e})

\* get_folder_size(folder_path)
GetFolderSize(dir) ==
    SumSizes({e \in tree : e.kind = "file" /\ IsUnder(e.dir, dir)})

req_files == {"requirements.txt", "environment.yml", "pyproject.toml", "setup.py"}

readme_files == {"README.md", "README.rst", "README.txt", "readme.md"}

\* has_requirements_file(folder_path)
HasRequirementsFile(dir) == \E e \in tree : e.dir = dir /\ e.name \in req_files

\* has_readme_file(folder_path)
HasReadmeFile(dir) == \E e \in tree : e.dir = dir /\ e.name \in readme_files

----------------------------------------------------------------------------
(* Repository scanner *)

\* the fixed category tags, the keys of self.categories in insertion order
categories == <<"1-Web-Development", "2-Data-Science", "3-Machine-Learning",
                "4-Computer-Vision", "5-Natural-Language-Processing",
                "6-Generative-AI">>

\* mutant: the directory name is never used
AppNameStemOnly(e) == Stem(e.name)

\* app_name of create_app_info
AppName(e) == IF ParentName(e) # RepoName THEN ParentName(e) ELSE Stem(e.name)

\* the fields of create_app_info's dict that depend on the file path
\* alone, computed once per entry
Classified ==
    [e \in AllEntries |->
        LET app_name == AppName(e)
            app_type == DetectAppType(e.name)
        IN  [name      |-> app_name,
             path      |-> PathStr(e.dir),
             file_path |-> FilePathStr(e),
             type      |-> app_type,
             category  |-> DetermineCategory(app_name, app_type)]]

\* create_app_info(file_path): <<>> stands for None, <<r>> for the dict r;
\* probing a denied directory raises, and the except clause returns None
CreateAppInfo(e) ==
    IF e.dir \in denied THEN <<>>
    ELSE LET c == Classified[e]
         IN  << [name             |-> c.name,
                 path             |-> c.path,
                 file_path        |-> c.file_path,
                 type             |-> c.type,
                 category         |-> c.category,
                 size             |-> GetFolderSize(e.dir),
                 has_requirements |-> HasRequirementsFile(e.dir),
                 has_readme       |-> HasReadmeFile(e.dir)] >>

\* mutant: the is_file() test is missing
IsCandidateAnyKind(e) == Suffix(e.name) \in {".py", ".ipynb"}

\* file_path.is_file() and file_path.suffix in ['.py', '.ipynb']
IsCandidate(e) == e.kind = "file" /\ Suffix(e.name) \in {".py", ".ipynb"}

RECURSIVE ScanLoopAbort(_, _)
\* mutant: the loop ends at the first file whose record construction fails
ScanLoopAbort(listing, found) ==
    IF listing = <<>> THEN found
    ELSE LET file_path == Head(listing)
             app_info == IF IsCandidate(file_path) THEN CreateAppInfo(file_path)
                         ELSE <<>>
         IN  IF IsCandidate(file_path) /\ app_info = <<>> THEN found
             ELSE ScanLoopAbort(Tail(listing), found \o app_info)

RECURSIVE ScanLoop(_, _)
\* the for loop of scan_repository_for_apps over the enumeration `listing`,
\* with the records appended so far in `found`
ScanLoop(listing, found) ==
    IF listing = <<>> THEN found
    ELSE LET file_path == Head(listing)
             app_info == IF IsCandidate(file_path) THEN CreateAppInfo(file_path)
                         ELSE <<>>
         IN  ScanLoop(Tail(listing), found \o app_info)

\* the position at which sorted() places x among the already sorted s:
\* behind every element whose key is not greater (the sort is stable)
InsertAt(s, x) == Cardinality({i \in 1..Len(s) : ~StrLess(x.name, s[i].name)})

\* mutant: the records are returned in enumeration order
SortedByNameUnsorted(s) == s

RECURSIVE SortedByName(_)
\* sorted(apps, key=lambda x: x['name'])
SortedByName(s) ==
    IF s = <<>> THEN <<>>
    ELSE LET front == SortedByName(SubSeq(s, 1, Len(s) - 1))
             x == s[Len(s)]
             k == InsertAt(front, x)
         IN  SubSeq(front, 1, k) \o <<x>> \o SubSeq(front, k + 1, Len(front))

\* mutant: a missing root returns the catalogue of the previous scan
ScanRepositoryForAppsStale(listing) ==
    IF ~repo_exists THEN apps
    ELSE SortedByName(ScanLoop(listing, <<>>))

\* scan_repository_for_apps(), given the order in which rglob yields
ScanRepositoryForApps(listing) ==
    IF ~repo_exists THEN <<>>
    ELSE SortedByName(ScanLoop(listing, <<>>))

RECURSIVE Orderings(_)
\* the orders in which rglob("*") can yield a set of entries
Orderings(S) ==
    IF S = {} THEN {<<>>}
    ELSE UNION {{<<e>> \o o : o \in Orderings(S \ {e})} : e \in S}

----------------------------------------------------------------------------
(* Organizer *)

\* self.base_path
BaseName == "Pinokio-Apps"

\* the state of org while no organize call has just returned
NoOrg == [called |-> FALSE, ret |-> FALSE, steps |-> <<>>]

\* the organizer's side of the disk before anything was placed; paths are
\* written from the working directory, and repo_abs tells whether the
\* paths the core stores are anchored at the filesystem root
InitOrganizer ==
    /\ repo_abs = FALSE
    /\ cat_dirs = {}
    /\ targets = {}
    /\ org = NoOrg

\* per entry, the directories that exist because the entry does: its own
\* directory and the ones above it, as path strings
Ancestors ==
    [e \in AllEntries |->
        {PathStr(SubSeq(e.dir, 1, k)) : k \in 0..Len(e.dir)}
            \cup (IF e.kind = "dir" THEN {FilePathStr(e)} ELSE {})]

\* the directories that exist at or below the repository root
SourceDirs(tr) ==
    UNION {Ancestors[e] : e \in tr} \cup (IF repo_exists THEN {RepoName} ELSE {})

\* the entry at category_path / app_name: a set of at most one element
TargetAt(tg, category, name) ==
    {t \in tg : t.category = category /\ t.name = name}

\* where the link made by symlink_to(app_path) leads: an absolute stored
\* path leads to itself, a relative one is taken from the folder of the link
LinkDestination(t) ==
    IF repo_abs THEN t.src
    ELSE BaseName \o "/" \o t.category \o "/" \o t.src

\* symlink_path.exists(), which follows links
PathExists(fs, category, name) ==
    \E t \in TargetAt(fs.targets, category, name) :
        \/ t.kind = "dir"
        \/ t.kind = "link" /\ LinkDestination(t) \in SourceDirs(fs.tree)

\* mutant: rmtree follows a link and removes what it leads to
RmtreeFollowsLinks(fs, category, name) ==
    LET cur == TargetAt(fs.targets, category, name)
        led == {LinkDestination(t) : t \in {u \in cur : u.kind = "link"}}
    IN  [raised |-> FALSE,
         fs     |-> [fs EXCEPT !.targets = @ \ cur,
                               !.tree = {e \in @ : Ancestors[e] \cap led = {}}]]

\* shutil.rmtree(symlink_path): refuses a symbolic link, removes a real
\* directory with all that is below it
Rmtree(fs, category, name) ==
    LET cur == TargetAt(fs.targets, category, name)
    IN  IF \E t \in cur : t.kind = "link"
        THEN [raised |-> TRUE, fs |-> fs]
        ELSE [raised |-> FALSE, fs |-> [fs EXCEPT !.targets = @ \ cur]]

\* symlink_path.symlink_to(app_path): needs the category folder to exist
\* and the path to be free; the source is not looked at
SymlinkTo(fs, category, name, path) ==
    IF category \notin fs.cat_dirs \/ TargetAt(fs.targets, category, name) # {}
    THEN [raised |-> TRUE, fs |-> fs]
    ELSE [raised |-> FALSE,
          fs     |-> [fs EXCEPT !.targets = @ \cup
                        {[category |-> category, name |-> name,
                          kind |-> "link", src |-> path]}]]

\* shutil.copytree(app_path, symlink_path): needs the source to exist and
\* the path to be free; creates the folders above the copy
Copytree(fs, category, name, path) ==
    IF path \notin SourceDirs(fs.tree) \/ TargetAt(fs.targets, category, name) # {}
    THEN [raised |-> TRUE, fs |-> fs]
    ELSE [raised |-> FALSE,
          fs     |-> [fs EXCEPT !.cat_dirs = @ \cup {category},
                               !.targets = @ \cup
                        {[category |-> category, name |-> name,
                          kind |-> "dir", src |-> path]}]]

\* the body of the loop over category_apps: the placement of one app
PlaceApp(s, app) ==
    LET category == app.category
        name     == app.name
        cur      == TargetAt(s.fs.targets, category, name)
        existed  == PathExists(s.fs, category, name)
        rm       == IF existed THEN Rmtree(s.fs, category, name)
                    ELSE [raised |-> FALSE, fs |-> s.fs]
        ln       == IF rm.raised THEN rm
                    ELSE SymlinkTo(rm.fs, category, name, app.path)
        cp       == IF ln.raised THEN Copytree(ln.fs, category, name, app.path)
                    ELSE ln
        step     == [name     |-> name,
                     category |-> category,
                     path     |-> app.path,
                     before   |-> IF cur = {} THEN "none"
                                  ELSE (CHOOSE t \in cur : TRUE).kind,
                     rm       |-> IF ~existed THEN "none"
                                  ELSE IF rm.raised THEN "failed" ELSE "ok",
                     link     |-> IF rm.raised THEN "none"
                                  ELSE IF ln.raised THEN "failed" ELSE "ok",
                     copy     |-> IF ~ln.raised THEN "none"
                                  ELSE IF cp.raised THEN "failed" ELSE "ok"]
    IN  [fs |-> cp.fs, steps |-> Append(s.steps, step)]

\* whether a step placed nothing
PlacementFailed(step) == step.link # "ok" /\ step.copy # "ok"

RECURSIVE PlaceLoopAbort(_, _)
\* mutant: a failed placement ends the loop over the category's apps
PlaceLoopAbort(s, category_apps) ==
    IF category_apps = <<>> THEN s
    ELSE LET t == PlaceApp(s, Head(category_apps))
         IN  IF PlacementFailed(t.steps[Len(t.steps)]) THEN t
             ELSE PlaceLoopAbort(t, Tail(category_apps))

RECURSIVE PlaceLoop(_, _)
\* for app in category_apps
PlaceLoop(s, category_apps) ==
    IF category_apps = <<>> THEN s
    ELSE PlaceLoop(PlaceApp(s, Head(category_apps)), Tail(category_apps))

\* category_apps = [app for app in self.apps if app.get('category') == category]
CategoryApps(category) == SelectSeq(apps, LAMBDA app : app.category = category)

RECURSIVE CategoryLoop(_, _)
\* for category, subcategories in self.categories.items()
CategoryLoop(s, k) ==
    IF k > Len(categories) THEN s
    ELSE CategoryLoop(PlaceLoop(s, CategoryApps(categories[k])), k + 1)

\* organize_apps_into_categories(): the value returned, the disk it leaves
\* and the steps it took
OrganizeAppsIntoCategories ==
    LET start == [fs    |-> [cat_dirs |-> cat_dirs, targets |-> targets,
                             tree |-> tree],
                  steps |-> <<>>]
        end   == CategoryLoop(start, 1)
    IN  [ret |-> TRUE, fs |-> end.fs, steps |-> end.steps]

----------------------------------------------------------------------------
(* The run instructions *)

\* the number of entries of py_files that get_python_instructions lists
ShownFiles == 10

\* number of paths that rglob('*.py') yields below an app path
MaxPyFiles == 12

\* the fixed templates, each given by its heading and the line that tells
\* how the app is started
streamlit_instructions ==
    <<"**Streamlit App Detected**",
      "!nohup streamlit run app.py --server.port 8501 &">>

gradio_instructions ==
    <<"**Gradio App Detected**", "# Or use: !python app.py">>

panel_instructions ==
    <<"**Panel App Detected**", "pn.extension(comms='colab')">>

jupyter_instructions ==
    <<"**Jupyter Notebook Detected**",
      "!jupyter nbconvert --to notebook --execute your_notebook.ipynb">>

\* seq[:n]
Take(seq, n) == SubSeq(seq, 1, IF Len(seq) < n THEN Len(seq) ELSE n)

\* mutant: the note is appended from the tenth file on
GetPythonInstructionsNoteEarly(app_path, py_files) ==
    LET shown == Take(py_files, ShownFiles)
    IN  <<"**Python App Detected**", "%cd " \o app_path,
          "**Main Python files found:**">>
        \o [i \in 1..Len(shown) |-> "- " \o shown[i]]
        \o (IF Len(py_files) >= ShownFiles
            THEN <<"... and " \o ToString(Len(py_files) - ShownFiles)
                              \o " more files">>
            ELSE <<>>)

\* get_python_instructions(app_path), py_files being the paths that
\* app_path.rglob yields for the pattern *.py, relative to app_path
GetPythonInstructions(app_path, py_files) ==
    LET shown == Take(py_files, ShownFiles)
    IN  <<"**Python App Detected**", "%cd " \o app_path,
          "**Main Python files found:**">>
        \o [i \in 1..Len(shown) |-> "- " \o shown[i]]
        \o (IF Len(py_files) > ShownFiles
            THEN <<"... and " \o ToString(Len(py_files) - ShownFiles)
                              \o " more files">>
            ELSE <<>>)

\* mutant: flask apps get a template of their own
GetAppInstructionsFlask(app_type, app_path, py_files) ==
    CASE app_type = "streamlit" -> streamlit_instructions
      [] app_type = "gradio"    -> gradio_instructions
      [] app_type = "panel"     -> panel_instructions
      [] app_type = "jupyter"   -> jupyter_instructions
      [] app_type = "flask"     -> <<"**Flask App Detected**", "!flask run">>
      [] OTHER                  -> GetPythonInstructions(app_path, py_files)

\* get_app_instructions(app_type, app_path)
GetAppInstructions(app_type, app_path, py_files) ==
    CASE app_type = "streamlit" -> streamlit_instructions
      [] app_type = "gradio"    -> gradio_instructions
      [] app_type = "panel"     -> panel_instructions
      [] app_type = "jupyter"   -> jupyter_instructions
      [] OTHER                  -> GetPythonInstructions(app_path, py_files)

\* the paths rglob yields for an app directory that holds n matches
PyFiles(n) == [i \in 1..n |-> "m" \o ToString(i) \o ".py"]

----------------------------------------------------------------------------
(* Front-end state *)

\* the three front-ends of the core
FrontEnds == {"gradio", "ipywidgets", "panel"}

\* the set of the elements of a sequence
Range(seq) == {seq[i] : i \in 1..Len(seq)}

\* the output area before any per-app callback wrote to it
NoEffect ==
    [op |-> "none", path |-> "", type |-> "", picked |-> "", pip |-> FALSE,
     text |-> <<>>]

\* the buttons as the constructors create them: only the scan trigger can
\* be clicked (interactive=False, disabled=True on all the others)
InitButtons ==
    [categorize |-> TRUE, clone |-> FALSE, dashboard |-> FALSE,
     install |-> FALSE, run |-> FALSE, readme |-> FALSE]

\* the widgets as the constructors of the front-ends leave them: nothing to
\* select, every category ticked, no type ticked, no message shown yet
InitFrontEnd(front) ==
    /\ ui = front
    /\ selector = [options |-> <<>>, value |-> ""]
    /\ filters = [search |-> "", categories |-> Range(categories), types |-> {}]
    /\ selected_app = <<>>
    /\ outcome = [displayed |-> FALSE, escaped |-> FALSE]
    /\ buttons = InitButtons
    /\ effect = NoEffect

\* [app['name'] for app in catalogue]
Names(catalogue) == [i \in 1..Len(catalogue) |-> catalogue[i].name]

\* set(app['type'] for app in catalogue)
TypesOf(catalogue) == {catalogue[i].type : i \in 1..Len(catalogue)}

\* names[0] if names else None, where "" stands for None
First(names) == IF names = <<>> THEN "" ELSE names[1]

\* mutant: the last record of the name is taken
FirstNamedLast(catalogue, name) ==
    LET hits == {i \in 1..Len(catalogue) : catalogue[i].name = name}
    IN  IF hits = {} THEN <<>>
        ELSE <<catalogue[CHOOSE i \in hits : \A j \in hits : i >= j]>>

\* next((app for app in self.core.apps if app['name'] == name), None)
FirstNamed(catalogue, name) ==
    LET hits == {i \in 1..Len(catalogue) : catalogue[i].name = name}
    IN  IF hits = {} THEN <<>>
        ELSE <<catalogue[CHOOSE i \in hits : \A j \in hits : i <= j]>>

\* the assignments of on_app_selected to self.selected_app when the
\* selector holds value: none when the selector is empty
OnAppSelected(catalogue, value, cached) ==
    IF value = "" THEN cached ELSE FirstNamed(catalogue, value)

\* what on_app_selected does to the three per-app buttons b when the
\* selector holds value and app is the record it resolved to: Gradio and
\* ipywidgets set the install and the readme button and never touch the run
\* button; Panel's update_button_states sets all three, and only for a
\* non-empty value
SelectionButtons(front, value, app, b) ==
    IF front = "panel"
    THEN IF value = "" THEN b
         ELSE IF app = <<>>
         THEN [b EXCEPT !.install = FALSE, !.run = FALSE, !.readme = FALSE]
         ELSE [b EXCEPT !.install = app[1].has_requirements,
                        !.run     = TRUE,
                        !.readme  = app[1].has_readme]
    ELSE IF value = "" \/ app = <<>>
         THEN [b EXCEPT !.install = FALSE, !.readme = FALSE]
         ELSE [b EXCEPT !.install = app[1].has_requirements,
                        !.readme  = app[1].has_readme]

\* the selector of widget state w takes value v; its change handler,
\* on_app_selected, runs when that changes the value
WithValue(catalogue, w, v) ==
    IF v = w.selector.value THEN w
    ELSE LET app == OnAppSelected(catalogue, v, w.selected_app)
         IN  [w EXCEPT !.selector.value = v,
                       !.selected_app = app,
                       !.buttons = SelectionButtons(w.front, v, app, @)]

\* self.app_selector.options = names on an ipywidgets Dropdown: the first
\* option, or nothing, becomes the value
DropdownOptions(catalogue, w, names) ==
    WithValue(catalogue, [w EXCEPT !.selector.options = names], First(names))

\* the texts typed into the search box
SearchTexts == {"", "WEB", "z"}

\* the names a record can carry
NamePool == {Classified[e].name : e \in EntryPool}

\* mutant: the search text is compared as typed
SearchHitCaseSensitive ==
    [search \in SearchTexts, name \in NamePool |-> Contains(search, name)]

\* search_term in app['name'].lower() with search_term = search_text.lower(),
\* computed once for every search text and name
SearchHit ==
    [search \in SearchTexts, name \in NamePool |->
        Contains(Lower(search), Lower(name))]

\* filtered_apps of update_filters, update_app_selector and
\* update_app_selector_options: a filter whose input is empty is skipped
Filtered(catalogue, flt) ==
    LET by_search == IF flt.search # ""
                     THEN SelectSeq(catalogue, LAMBDA app :
                              SearchHit[flt.search, app.name])
                     ELSE catalogue
        by_category == IF flt.categories # {}
                       THEN SelectSeq(by_search, LAMBDA app :
                                app.category \in flt.categories)
                       ELSE by_search
    IN  IF flt.types # {}
        THEN SelectSeq(by_category, LAMBDA app : app.type \in flt.types)
        ELSE by_category

\* the last two statements of update_app_selector and of
\* update_app_selector_options: a value that is no longer offered is
\* replaced by the first option
KeepValueOffered(catalogue, w) ==
    IF w.selector.value # "" /\ w.selector.value \notin Range(w.selector.options)
    THEN WithValue(catalogue, w, First(w.selector.options))
    ELSE w

\* what a change of a filter widget does to the widgets, the filter
\* widgets holding flt already
UpdateAppSelector(front, catalogue, flt, w) ==
    LET names == Names(Filtered(catalogue, flt))
        v     == [w EXCEPT !.filters = flt]
    IN  CASE front = "gradio" ->
                \* return gr.Dropdown(choices=app_names, value=...)
                WithValue(catalogue, [v EXCEPT !.selector.options = names],
                          First(names))
          [] front = "ipywidgets" ->
                KeepValueOffered(catalogue, DropdownOptions(catalogue, v, names))
          [] front = "panel" ->
                KeepValueOffered(catalogue, [v EXCEPT !.selector.options = names])

\* what the scan handler does to the widgets once self.core.apps holds found
AfterScan(front, found, w) ==
    CASE front = "gradio" ->
            \* the choices are assigned, and the category tags and the
            \* types found are returned to the two filter widgets
            [w EXCEPT !.selector.options = Names(found),
                      !.filters.categories = Range(categories),
                      !.filters.types = TypesOf(found),
                      !.buttons.clone = Len(found) > 0]
      [] front = "ipywidgets" ->
            \* assigning the options of the type filter clears its
            \* selection, which the filter's observer follows
            LET cleared  == [w.filters EXCEPT !.types = {}]
                observed == IF w.filters.types # {}
                            THEN UpdateAppSelector(front, found, cleared, w)
                            ELSE w
                listed   == DropdownOptions(found, observed, Names(found))
            IN  [listed EXCEPT !.buttons.clone = Len(found) > 0]
      [] front = "panel" ->
            \* PanelAppStoreUI holds no selector; the dashboard is not told
            [w EXCEPT !.buttons.categorize = FALSE,
                      !.buttons.clone = TRUE,
                      !.buttons.dashboard = TRUE]

\* the widgets of the front-end as one record
Widgets ==
    [front |-> ui, selector |-> selector, filters |-> filters,
     selected_app |-> selected_app, buttons |-> buttons]

\* the names this module can use: its imports
ImportedNames == {"sys", "Path", "List", "Dict", "Any", "Optional", "logging",
                  "ColabAppStoreCore"}

\* whether evaluating os.chdir(...) raises NameError
ChdirRaises == "os" \notin ImportedNames

----------------------------------------------------------------------------
(* The operations on one app directory *)

\* the directory a record's 'path' names
DirOfPath(path) == CHOOSE d \in DirsOf(AllEntries) : PathStr(d) = path

\* the first name of names for which (Path(path) / name).exists(), "" if
\* there is none
FirstPresent(names, dir) ==
    LET here == {i \in 1..Len(names) :
                    \E e \in tree : e.dir = dir /\ e.name = names[i]}
    IN  IF here = {} THEN ""
        ELSE names[CHOOSE i \in here : \A j \in here : i <= j]

\* mutant: pyproject.toml is looked for first
installer_manifests_reordered ==
    <<"pyproject.toml", "environment.yml", "requirements.txt">>

\* the names the installer looks for, in its order
installer_manifests == <<"requirements.txt", "environment.yml", "pyproject.toml">>

\* the names view_readme looks for, in its order
readme_names == <<"README.md", "README.rst", "README.txt", "readme.md">>

\* the installer on directory dir: the manifest it picks, whether it starts
\* pip, and what it reports; imported tells whether the module that holds
\* the installer imports subprocess, without which subprocess.run raises
\* NameError into the except clause
Installer(dir, imported) ==
    LET req_file == FirstPresent(installer_manifests, dir)
    IN  IF req_file = ""
        THEN [picked |-> "", pip |-> FALSE,
              text |-> <<"No requirements file found.">>]
        ELSE IF req_file = "requirements.txt"
        THEN IF imported
             THEN [picked |-> req_file, pip |-> TRUE, text |-> <<"pip output">>]
             ELSE [picked |-> req_file, pip |-> FALSE,
                   text |-> <<"Error installing dependencies">>]
        ELSE [picked |-> req_file, pip |-> FALSE,
              text |-> <<"Requirements file found: " \o req_file,
                         "Please install dependencies manually for this file type.">>]

\* what install_dependencies leaves in the output area eff when selected is
\* self.selected_app
InstallEffect(front, selected, eff) ==
    IF selected = <<>>
    THEN IF front = "panel" THEN eff
         ELSE [NoEffect EXCEPT !.op = "install", !.text = <<"No app selected">>]
    ELSE LET app == selected[1]
             r   == Installer(DirOfPath(app.path), "subprocess" \in ImportedNames)
         IN  [op |-> "install", path |-> app.path, type |-> app.type,
              picked |-> r.picked, pip |-> r.pip, text |-> r.text]

\* the paths Path(path).rglob('*.py') yields, relative to the directory
PyFilesBelow(dir) ==
    LET found == {e \in tree : IsUnder(e.dir, dir) /\ Suffix(e.name) = ".py"}
        order == CHOOSE o \in Orderings(found) : TRUE
    IN  [i \in 1..Len(order) |->
            IF order[i].dir = dir THEN order[i].name
            ELSE order[i].dir[Len(order[i].dir)] \o "/" \o order[i].name]

\* what run_app leaves in the output area: Gradio's return value is lost to
\* the exception of the finally clause
RunEffect(front, selected, eff) ==
    IF selected = <<>>
    THEN IF front = "panel" \/ (front = "gradio" /\ ChdirRaises) THEN eff
         ELSE [NoEffect EXCEPT !.op = "run", !.text = <<"No app selected">>]
    ELSE LET app == selected[1]
         IN  IF front = "gradio" /\ ChdirRaises THEN eff
             ELSE [NoEffect EXCEPT
                     !.op = "run", !.path = app.path, !.type = app.type,
                     !.text = IF ChdirRaises THEN <<"Error running app">>
                              ELSE GetAppInstructions(app.type, app.path,
                                       PyFilesBelow(DirOfPath(app.path)))]

\* what view_readme leaves in the output area: the file it picked, and its
\* content when it can be read
ReadmeEffect(front, selected, eff) ==
    IF selected = <<>>
    THEN IF front = "panel" THEN eff
         ELSE [NoEffect EXCEPT !.op = "readme", !.text = <<"No app selected">>]
    ELSE LET app         == selected[1]
             dir         == DirOfPath(app.path)
             readme_file == FirstPresent(readme_names, dir)
             is_file     == \E e \in tree : /\ e.dir = dir
                                            /\ e.name = readme_file
                                            /\ e.kind = "file"
         IN  [NoEffect EXCEPT
                 !.op = "readme", !.path = app.path, !.type = app.type,
                 !.picked = readme_file,
                 !.text = IF readme_file = "" THEN <<"No README file found.">>
                          ELSE IF is_file
                          THEN <<"content of " \o app.path \o "/" \o readme_file>>
                          ELSE <<"Error reading README">>]

----------------------------------------------------------------------------
(* Inputs of the classifier calls *)

\* fragments that file names are assembled from
FileTokens == {"streamlit", "STREAMLIT", "Gradio", "flask", "fastapi", "panel",
               "dash", "plotly", "app", "main", "run", "index", "wsgi", "model",
               "x", "_", ".py"}

FileExts == {".py", ".ipynb", ".IPYNB", ".txt", ""}

\* fragments that app names are assembled from
AppTokens == {"Web", "data", "ML", "cv", "nlp", "ai", "xyz", "My", "App", "html",
              "train", "Plotly", "mask", "text", "-", "stable", "flask"}

RECURSIVE Concats(_, _)
\* the names made of 1..n fragments
Concats(tokens, n) ==
    IF n = 0 THEN {}
    ELSE tokens \cup {a \o b : a \in Concats(tokens, n - 1), b \in tokens}

FileNames == {s \o x : s \in Concats(FileTokens, MaxParts), x \in FileExts}

AppNames == Concats(AppTokens, MaxParts)

\* the runtime types detect_app_type can return, and one it cannot
AppTypes == {app_indicators[t].type : t \in 1..Len(app_indicators)}
                \cup {"unknown", "shiny"}

NoCall == [fn |-> "none", name |-> "", type |-> "", done |-> TRUE, ret |-> ""]

DetectCalls ==
    {[fn |-> "detect_app_type", name |-> n, type |-> "", done |-> FALSE, ret |-> ""]
        : n \in FileNames}

CategoryCalls ==
    {[fn |-> "determine_category", name |-> n, type |-> t, done |-> FALSE, ret |-> ""]
        : n \in AppNames, t \in AppTypes}

----------------------------------------------------------------------------
(* The classifier as a state machine: one pending call, then its result *)

InitClassifier ==
    /\ repo_exists = FALSE
    /\ tree = {}
    /\ denied = {}
    /\ apps = <<>>
    /\ last_op = "init"
    /\ call \in DetectCalls \cup CategoryCalls
    /\ InitOrganizer
    /\ InitFrontEnd("gradio")

DetectCall ==
    /\ call.fn = "detect_app_type"
    /\ ~call.done
    /\ call' = [call EXCEPT !.done = TRUE, !.ret = DetectAppType(call.name)]
    /\ UNCHANGED <<repo_exists, tree, denied, apps, last_op, orgVars, uiVars>>

CategoryCall ==
    /\ call.fn = "determine_category"
    /\ ~call.done
    /\ call' = [call EXCEPT !.done = TRUE,
                            !.ret = DetermineCategory(call.name, call.type)]
    /\ UNCHANGED <<repo_exists, tree, denied, apps, last_op, orgVars, uiVars>>

NextClassifier == DetectCall \/ CategoryCall

SpecClassifier == InitClassifier /\ [][NextClassifier]_vars

Detected == call.fn = "detect_app_type" /\ call.done

Categorized == call.fn = "determine_category" /\ call.done

----------------------------------------------------------------------------
(* The core and the repository it scans *)

Init ==
    /\ repo_exists = FALSE
    /\ tree = {}
    /\ denied = {}
    /\ apps = <<>>
    /\ last_op = "init"
    /\ call = NoCall
    /\ InitOrganizer
    /\ InitFrontEnd("gradio")

\* git clone creates the repository directory
CreateRepository ==
    /\ ~repo_exists
    /\ repo_exists' = TRUE
    /\ last_op' = "env"
    /\ UNCHANGED <<tree, denied, apps, call, repo_abs, cat_dirs, targets, uiVars>>
    /\ org' = NoOrg

\* shutil.rmtree(self.repo_path)
RemoveRepository ==
    /\ repo_exists
    /\ repo_exists' = FALSE
    /\ tree' = {}
    /\ denied' = {}
    /\ last_op' = "env"
    /\ UNCHANGED <<apps, call, repo_abs, cat_dirs, targets, uiVars>>
    /\ org' = NoOrg

\* an entry appears below the repository root
AddEntry(e) ==
    /\ repo_exists
    /\ e \notin tree
    /\ Cardinality(tree) < MaxFiles
    /\ tree' = tree \cup {e}
    /\ last_op' = "env"
    /\ UNCHANGED <<repo_exists, denied, apps, call, repo_abs, cat_dirs, targets, uiVars>>
    /\ org' = NoOrg

\* an entry disappears; a directory left without entries is forgotten
RemoveEntry(e) ==
    /\ e \in tree
    /\ tree' = tree \ {e}
    /\ denied' = denied \cap DirsOf(tree')
    /\ last_op' = "env"
    /\ UNCHANGED <<repo_exists, apps, call, repo_abs, cat_dirs, targets, uiVars>>
    /\ org' = NoOrg

\* probing directory d starts to raise
Deny(d) ==
    /\ d \in DirsOf(tree) \ denied
    /\ Cardinality(denied) < MaxDenied
    /\ denied' = denied \cup {d}
    /\ last_op' = "env"
    /\ UNCHANGED <<repo_exists, tree, apps, call, repo_abs, cat_dirs, targets, uiVars>>
    /\ org' = NoOrg

\* probing directory d works again
Allow(d) ==
    /\ d \in denied
    /\ denied' = denied \ {d}
    /\ last_op' = "env"
    /\ UNCHANGED <<repo_exists, tree, apps, call, repo_abs, cat_dirs, targets, uiVars>>
    /\ org' = NoOrg

\* mutant: the scan result is added to the catalogue
ScanResultMerged(listing) == apps \o ScanRepositoryForApps(listing)

\* the value the scan trigger assigns to self.core.apps
ScanResult(listing) == ScanRepositoryForApps(listing)

\* categorize_apps, the scan trigger of the front-end
CategorizeApps ==
    /\ \E listing \in Orderings(tree) :
          LET found == ScanResult(listing)
              w     == AfterScan(ui, found, Widgets)
          IN  /\ apps' = found
              /\ selector' = w.selector
              /\ filters' = w.filters
              /\ selected_app' = w.selected_app
              /\ buttons' = w.buttons
    /\ outcome' = [displayed |-> TRUE, escaped |-> FALSE]
    /\ effect' = NoEffect
    /\ last_op' = "scan"
    /\ org' = NoOrg
    /\ UNCHANGED <<repo_exists, tree, denied, call, ui, repo_abs, cat_dirs, targets>>

Next ==
    \/ CreateRepository
    \/ RemoveRepository
    \/ \E e \in EntryPool : AddEntry(e)
    \/ \E e \in EntryPool : RemoveEntry(e)
    \/ \E d \in DirsOf(EntryPool) : Deny(d)
    \/ \E d \in DirsOf(EntryPool) : Allow(d)
    \/ CategorizeApps

Spec == Init /\ [][Next]_vars

\* the state right after a scan returned
Scanned == last_op = "scan"

\* the candidate files of the tree
Candidates == {e \in tree : e.kind = "file" /\ Suffix(e.name) \in {".py", ".ipynb"}}

\* the positions of the catalogue that hold the record of entry e
RecordsOf(e) == {i \in 1..Len(apps) : apps[i].file_path = FilePathStr(e)}

----------------------------------------------------------------------------
(* The organizer and the disk below base_path *)

\* the entries the repository is built from while apps are organized
OrgPool == {e \in EntryPool :
                \/ e.dir = <<"webdata">>
                \/ e.dir = <<"Zeta">> /\ e.name = "util.py"}

InitOrganize ==
    /\ repo_exists = FALSE
    /\ tree = {}
    /\ denied = {}
    /\ apps = <<>>
    /\ last_op = "init"
    /\ call = NoCall
    /\ repo_abs \in BOOLEAN
    /\ cat_dirs = {}
    /\ targets = {}
    /\ org = NoOrg
    /\ InitFrontEnd("gradio")

\* the six category folders are created below base_path by hand
MakeCategoryFolders ==
    /\ cat_dirs # Range(categories)
    /\ cat_dirs' = Range(categories)
    /\ last_op' = "env"
    /\ org' = NoOrg
    /\ UNCHANGED <<repo_exists, tree, denied, apps, call, repo_abs, targets, uiVars>>

\* mutant: the organize trigger stays as it was
AfterOrganizeKeepsClone(front, success, b) ==
    IF front = "panel"
    THEN [b EXCEPT !.dashboard = IF success THEN TRUE ELSE @]
    ELSE b

\* what clone_apps does to the buttons b: Panel disables the trigger on the
\* click and enables the dashboard button when organize returned true
AfterOrganize(front, success, b) ==
    IF front = "panel"
    THEN [b EXCEPT !.clone = FALSE, !.dashboard = IF success THEN TRUE ELSE @]
    ELSE b

\* clone_apps, the organize trigger of the front-end
CloneApps ==
    /\ LET r == OrganizeAppsIntoCategories
       IN  /\ cat_dirs' = r.fs.cat_dirs
           /\ targets' = r.fs.targets
           /\ tree' = r.fs.tree
           /\ org' = [called |-> TRUE, ret |-> r.ret, steps |-> r.steps]
           /\ buttons' = AfterOrganize(ui, r.ret, buttons)
    /\ outcome' = [displayed |-> TRUE, escaped |-> FALSE]
    /\ effect' = NoEffect
    /\ last_op' = "organize"
    /\ UNCHANGED <<repo_exists, denied, apps, call, repo_abs, ui, selector,
                   filters, selected_app>>

NextOrganize ==
    \/ CreateRepository
    \/ \E e \in OrgPool : AddEntry(e)
    \/ \E e \in OrgPool : RemoveEntry(e)
    \/ MakeCategoryFolders
    \/ CategorizeApps
    \/ CloneApps

SpecOrganize == InitOrganize /\ [][NextOrganize]_vars

\* the state right after an organize call returned
Organized == last_op = "organize" /\ org.called

----------------------------------------------------------------------------
(* C1 *)

Min(S) == CHOOSE m \in S : \A n \in S : m <= n

\* the order of the indicator table as the specification states it
StatedTypeOrder == <<"streamlit", "gradio", "flask", "fastapi", "jupyter",
                     "panel", "dash", "plotly", "python">>

\* the indicators listed for a type
IndicatorsOf(type) ==
    LET e == CHOOSE t \in 1..Len(app_indicators) : app_indicators[t].type = type
    IN  {app_indicators[e].indicators[k] : k \in 1..Len(app_indicators[e].indicators)}

\* the positions of the stated order whose type has an indicator that is a
\* substring of the lowercased name or equals the extension
HittingPositions(name) ==
    LET lowered == Lower(name)
        extension == Suffix(name)
    IN  {p \in 1..Len(StatedTypeOrder) :
            \E ind \in IndicatorsOf(StatedTypeOrder[p]) :
                Contains(ind, lowered) \/ ind = extension}

\* C1: detect_app_type returns the type of the first entry, in the order
\* streamlit, gradio, flask, fastapi, jupyter, panel, dash, plotly, python,
\* that has an indicator occurring in the lowercased file name or equal to
\* its extension, 'unknown' when there is none, and hence 'streamlit' for
\* every name containing "streamlit" in any letter case.
C1_FirstMatchWins ==
    Detected =>
        /\ LET hits == HittingPositions(call.name)
           IN  call.ret = IF hits = {} THEN "unknown"
                          ELSE StatedTypeOrder[Min(hits)]
        /\ Contains("streamlit", Lower(call.name)) => call.ret = "streamlit"

\* a mixed-case name holding both "streamlit" and "gradio" was classified
C1_Witness ==
    /\ Detected
    /\ Contains("streamlit", Lower(call.name))
    /\ ~Contains("streamlit", call.name)
    /\ Contains("gradio", Lower(call.name))
    /\ call.ret = "streamlit"

----------------------------------------------------------------------------
(* C2 *)

\* C2 as stated: every name with extension .ipynb is classified 'jupyter'
C2_IpynbAlwaysJupyter ==
    (Detected /\ Suffix(call.name) = ".ipynb") => call.ret = "jupyter"

\* the indicators of the four entries that precede jupyter (the longer
\* indicators of those entries contain one of these)
IndicatorsBeforeJupyter ==
    {"streamlit", "app.py", "gradio", "flask", "main.py", "wsgi.py", "fastapi"}

\* C2 (amended): a name with extension .ipynb is classified 'jupyter' when
\* its lowercased form contains no indicator of streamlit, gradio, flask or
\* fastapi, whatever indicators of later entries it contains.
C2_IpynbJupyterUnlessEarlier ==
    (/\ Detected
     /\ Suffix(call.name) = ".ipynb"
     /\ LET lowered == Lower(call.name)
        IN  \A ind \in IndicatorsBeforeJupyter : ~Contains(ind, lowered))
        => call.ret = "jupyter"

\* a notebook whose name holds an indicator of a later entry was classified
C2_Witness ==
    /\ Detected
    /\ Suffix(call.name) = ".ipynb"
    /\ Contains("panel", Lower(call.name))
    /\ call.ret = "jupyter"

----------------------------------------------------------------------------
(* C3, C4 *)

\* the keyword groups in the priority order the specification states
StatedGroups == <<
    [category |-> "1-Web-Development",             keywords |-> web_dev_keywords],
    [category |-> "2-Data-Science",                keywords |-> data_science_keywords],
    [category |-> "3-Machine-Learning",            keywords |-> ml_keywords],
    [category |-> "4-Computer-Vision",             keywords |-> cv_keywords],
    [category |-> "5-Natural-Language-Processing", keywords |-> nlp_keywords],
    [category |-> "6-Generative-AI",               keywords |-> genai_keywords] >>

\* the groups with a keyword occurring in the lowercased name
MatchingGroups(name) ==
    LET lowered == Lower(name)
    IN  {g \in 1..Len(StatedGroups) :
            \E k \in 1..Len(StatedGroups[g].keywords) :
                Contains(StatedGroups[g].keywords[k], lowered)}

\* C3: when some keyword group matches the lowercased name,
\* determine_category returns the category of the first matching group, in
\* the order web-dev, data-science, ML, computer-vision, NLP, generative-AI,
\* whatever the runtime type is.
C3_FirstKeywordGroupWins ==
    Categorized =>
        LET groups == MatchingGroups(call.name)
        IN  groups # {} => call.ret = StatedGroups[Min(groups)].category

\* a name matching two groups was categorized against a type whose default
\* category is a third one
C3_Witness ==
    /\ Categorized
    /\ Cardinality(MatchingGroups(call.name)) >= 2
    /\ Min(MatchingGroups(call.name)) = 4
    /\ call.type = "flask"
    /\ call.ret = "4-Computer-Vision"

\* the type-to-category table as the specification states it
StatedTypeCategory(type) ==
    IF type \in {"streamlit", "gradio", "flask", "fastapi"} THEN "1-Web-Development"
    ELSE IF type \in {"jupyter", "panel", "dash", "plotly"} THEN "2-Data-Science"
    ELSE IF type = "python" THEN "3-Machine-Learning"
    ELSE "3-Machine-Learning"

\* C4: when no keyword group matches the lowercased name, determine_category
\* returns the runtime type's entry of the type-to-category table, and
\* 3-Machine-Learning for a type absent from the table ('unknown' included).
C4_TypeDefault ==
    (Categorized /\ MatchingGroups(call.name) = {}) =>
        call.ret = StatedTypeCategory(call.type)

\* names without keywords were categorized for a type of the table and for
\* a type absent from it
C4_Witness ==
    /\ Categorized
    /\ MatchingGroups(call.name) = {}
    /\ call.type = "unknown"
    /\ call.ret = "3-Machine-Learning"

----------------------------------------------------------------------------
(* C5 *)

\* the six category tags as the specification states them
SixTags == {"1-Web-Development", "2-Data-Science", "3-Machine-Learning",
            "4-Computer-Vision", "5-Natural-Language-Processing",
            "6-Generative-AI"}

\* C5: in every reachable state every record of the catalogue has a
\* category that is one of the six fixed tags, and it is the key of exactly
\* one iteration of the organizer's loop over self.categories.
C5_CategoryIsFixedTag ==
    \A i \in 1..Len(apps) :
        /\ apps[i].category \in SixTags
        /\ Cardinality({k \in 1..Len(categories) :
                            categories[k] = apps[i].category}) = 1

\* the catalogue holds a record of unknown type, which got the global
\* default, next to a record of another category
C5_Witness ==
    \E i, j \in 1..Len(apps) :
        /\ apps[i].type = "unknown"
        /\ apps[i].category = "3-Machine-Learning"
        /\ apps[j].category # apps[i].category

----------------------------------------------------------------------------
(* C6 *)

\* the candidate files whose record construction does not raise
Constructible == {e \in Candidates : e.dir \notin denied}

\* C6: scan returns exactly one record for every regular file below the
\* root with extension .py or .ipynb whose record construction does not
\* raise, each carrying the file's containing directory, and no other
\* record; without such files the result is the empty sequence.
C6_OneRecordPerCandidate ==
    Scanned =>
        /\ \A e \in tree :
              Cardinality(RecordsOf(e)) = IF e \in Constructible THEN 1 ELSE 0
        /\ \A e \in Constructible :
              \A i \in RecordsOf(e) : apps[i].path = PathStr(e.dir)
        /\ Len(apps) = Cardinality(Constructible)
        /\ Constructible = {} => apps = <<>>

\* a scan of a tree with two .py files in one directory and an entry that
\* is no candidate returned two records that share the directory
C6_Witness ==
    /\ Scanned
    /\ tree \ Candidates # {}
    /\ \E i, j \in 1..Len(apps) :
          /\ i # j
          /\ apps[i].path = apps[j].path
          /\ apps[i].file_path # apps[j].file_path
          /\ Suffix(apps[i].file_path) = ".py"
          /\ Suffix(apps[j].file_path) = ".py"

----------------------------------------------------------------------------
(* C7 *)

\* C7: the sequence returned by scan is sorted by name in ascending lexical
\* order: no record's name is greater than the name of its successor.
C7_SortedByName ==
    Scanned =>
        \A i \in 1..(Len(apps) - 1) : ~StrLess(apps[i + 1].name, apps[i].name)

\* a scan returned records of different names, an upper-case one first
C7_Witness ==
    /\ Scanned
    /\ Len(apps) >= 2
    /\ apps[1].name = "Zeta"
    /\ StrLess(apps[1].name, apps[Len(apps)].name)

----------------------------------------------------------------------------
(* C8 *)

\* C8: scan on a root that does not exist returns the empty sequence.
C8_MissingRootEmpty ==
    (Scanned /\ ~repo_exists) => apps = <<>>

\* a scan ran while the root did not exist
C8_Witness ==
    /\ Scanned
    /\ ~repo_exists
    /\ Len(apps) = 0

----------------------------------------------------------------------------
(* C9 *)

\* C9: a record's name is the base name of the file's containing directory,
\* and the file's stem when that base name equals the scan root's own name;
\* it is never empty.
C9_NameFromDirectory ==
    Scanned =>
        \A e \in tree : \A i \in RecordsOf(e) :
            /\ ParentName(e) # RepoName => apps[i].name = ParentName(e)
            /\ ParentName(e) = RepoName => apps[i].name = Stem(e.name)
            /\ apps[i].name # ""

\* a scan named one record after its directory and another, found in a
\* nested directory called like the root, after its stem
C9_Witness ==
    /\ Scanned
    /\ \E i, j \in 1..Len(apps) :
          /\ apps[i].name = "webdata"
          /\ apps[j].path = "Ipynb-okio/Ipynb-okio"
          /\ apps[j].name = "model"

----------------------------------------------------------------------------
(* C10 *)

\* C10: when record construction raises for a candidate file, scan leaves
\* out the records of the raising files only: every other candidate file
\* still has its record in the returned catalogue.
C10_FailureSkipsOneRecord ==
    (Scanned /\ Candidates \ Constructible # {}) =>
        \A e \in Candidates :
            IF e.dir \in denied THEN RecordsOf(e) = {} ELSE RecordsOf(e) # {}

\* a scan met one raising candidate among three and returned the other two
C10_Witness ==
    /\ Scanned
    /\ Cardinality(Candidates \ Constructible) = 1
    /\ Cardinality(Constructible) = 2
    /\ Len(apps) = 2

----------------------------------------------------------------------------
(* The front-ends: selection and the actions on the selected app *)

\* the entries the repository is built from while a front-end is used
UIPool == {e \in EntryPool : e.dir \in {<<"webdata">>, <<"Zeta">>}}

InitUI ==
    /\ repo_exists = FALSE
    /\ tree = {}
    /\ denied = {}
    /\ apps = <<>>
    /\ last_op = "init"
    /\ call = NoCall
    /\ InitOrganizer
    /\ \E front \in FrontEnds : InitFrontEnd(front)

\* InteractiveDashboard(core): the Panel dashboard is built on the
\* catalogue as it is; every type found is ticked, nothing is selected
OpenDashboard ==
    /\ ui = "panel"
    /\ LET flt == [search |-> "", categories |-> Range(categories),
                   types |-> TypesOf(apps)]
       IN  /\ filters' = flt
           /\ selector' = [options |-> Names(Filtered(apps, flt)), value |-> ""]
    /\ selected_app' = <<>>
    /\ buttons' = [buttons EXCEPT !.install = FALSE, !.run = FALSE,
                                  !.readme = FALSE]
    /\ outcome' = [displayed |-> TRUE, escaped |-> FALSE]
    /\ effect' = NoEffect
    /\ last_op' = "dashboard"
    /\ UNCHANGED <<repo_exists, tree, denied, apps, call, ui, orgVars>>

\* the user picks another option of the selector: on_app_selected
SelectApp(name) ==
    /\ name \in Range(selector.options)
    /\ name # selector.value
    /\ LET w == WithValue(apps, Widgets, name)
       IN  /\ selector' = w.selector
           /\ selected_app' = w.selected_app
           /\ buttons' = w.buttons
    /\ outcome' = [displayed |-> TRUE, escaped |-> FALSE]
    /\ last_op' = "select"
    /\ UNCHANGED <<repo_exists, tree, denied, apps, call, ui, filters, effect,
                   orgVars>>

\* install_dependencies: the Panel dashboard returns without a word when
\* no app is selected; everything else ends in a message
InstallDependencies ==
    /\ outcome' = [displayed |-> ui # "panel" \/ selected_app # <<>>,
                   escaped   |-> FALSE]
    /\ effect' = InstallEffect(ui, selected_app, effect)
    /\ last_op' = "install"
    /\ UNCHANGED <<repo_exists, tree, denied, apps, call, ui, selector,
                   filters, selected_app, buttons, orgVars>>

\* run_app: os.chdir('/content') is evaluated in the finally clause (Gradio,
\* ipywidgets) or after the try statement (Panel), outside every handler
RunApp ==
    /\ outcome' =
         CASE ui = "gradio" ->
                \* the exception of the finally clause replaces the return
                [displayed |-> ~ChdirRaises, escaped |-> ChdirRaises]
           [] ui = "ipywidgets" ->
                \* output_area.value is assigned before the finally clause
                [displayed |-> TRUE, escaped |-> ChdirRaises]
           [] ui = "panel" ->
                IF selected_app = <<>>
                THEN [displayed |-> FALSE, escaped |-> FALSE]
                ELSE [displayed |-> TRUE, escaped |-> ChdirRaises]
    /\ effect' = RunEffect(ui, selected_app, effect)
    /\ last_op' = "run"
    /\ UNCHANGED <<repo_exists, tree, denied, apps, call, ui, selector,
                   filters, selected_app, buttons, orgVars>>

\* view_readme
ViewReadme ==
    /\ outcome' = [displayed |-> ui # "panel" \/ selected_app # <<>>,
                   escaped   |-> FALSE]
    /\ effect' = ReadmeEffect(ui, selected_app, effect)
    /\ last_op' = "readme"
    /\ UNCHANGED <<repo_exists, tree, denied, apps, call, ui, selector,
                   filters, selected_app, buttons, orgVars>>

NextUI ==
    \/ CreateRepository
    \/ \E e \in UIPool : AddEntry(e)
    \/ \E e \in UIPool : RemoveEntry(e)
    \/ CategorizeApps
    \/ OpenDashboard
    \/ \E name \in {Classified[e].name : e \in UIPool} : SelectApp(name)
    \/ InstallDependencies
    \/ RunApp
    \/ ViewReadme

SpecUI == InitUI /\ [][NextUI]_vars

\* the state right after a callback of the front-end returned or raised
AfterCallback ==
    last_op \in {"scan", "organize", "dashboard", "filter", "select",
                 "install", "run", "readme"}

----------------------------------------------------------------------------
(* C11 *)

\* C11: after any sequence of scans the catalogue is the result of the
\* last scan alone: it holds the records that scan built from the tree,
\* each once, and no record of an earlier scan
C11_CatalogueIsLastScan ==
    Scanned =>
        /\ Range(apps) = {CreateAppInfo(e)[1] : e \in Constructible}
        /\ Len(apps) = Cardinality(Range(apps))

\* a scan replaced a catalogue that held the record the front-end still
\* has cached by a catalogue of other records
C11_Witness ==
    /\ Scanned
    /\ apps # <<>>
    /\ selected_app # <<>>
    /\ \A i \in 1..Len(apps) : apps[i].file_path # selected_app[1].file_path

----------------------------------------------------------------------------
(* C12 *)

\* C12: after a scan replaced the catalogue, selected_app is None or a
\* record of the catalogue as it is now
C12_ScanInvalidatesSelection ==
    Scanned => (selected_app = <<>> \/ selected_app[1] \in Range(apps))

----------------------------------------------------------------------------
(* C13 *)

\* the number of steps organize took for the app of record r
StepsFor(r) ==
    Cardinality({k \in 1..Len(org.steps) :
        /\ org.steps[k].name = r.name
        /\ org.steps[k].category = r.category
        /\ org.steps[k].path = r.path})

\* the number of catalogue records that describe the app of record r
RecordsLike(r) ==
    Cardinality({i \in 1..Len(apps) :
        /\ apps[i].name = r.name
        /\ apps[i].category = r.category
        /\ apps[i].path = r.path})

\* C13: organize returns true and has attempted the placement of every
\* catalogue record, whether or not an earlier placement failed with both
\* the link and the copy
C13_FailureDoesNotStopOrganize ==
    Organized =>
        /\ org.ret
        /\ Len(org.steps) = Len(apps)
        /\ \A i \in 1..Len(apps) : StepsFor(apps[i]) = RecordsLike(apps[i])

\* a placement failed with link and copy, and later placements were made,
\* in the same category and in a later one
C13_Witness ==
    /\ Organized
    /\ \E k, m, n \in 1..Len(org.steps) :
        /\ k < m /\ k < n
        /\ PlacementFailed(org.steps[k])
        /\ org.steps[k].copy = "failed"
        /\ org.steps[m].category = org.steps[k].category
        /\ org.steps[n].category # org.steps[k].category
        /\ ~PlacementFailed(org.steps[n])

----------------------------------------------------------------------------
(* C14 *)

\* the entry that lies at the target of a step when organize has returned
TargetOf(step) == TargetAt(targets, step.category, step.name)

\* whether entry t is a link to, or a copy of, the directory at path
RefersTo(t, path) ==
    \/ t.kind = "link" /\ LinkDestination(t) = path
    \/ t.kind = "dir" /\ t.src = path

\* C14: in every placement the copy is attempted only after the link
\* attempt, or the removal before it, failed, never after a link that was
\* made, and every target that was placed is a link to, or a copy of, the
\* source directory of the app
C14_LinkThenCopy ==
    Organized =>
        \A k \in 1..Len(org.steps) :
            LET step == org.steps[k]
            IN  /\ step.copy # "none" => step.rm = "failed" \/ step.link = "failed"
                /\ step.link = "ok" => step.copy = "none"
                /\ ~PlacementFailed(step) =>
                       \E t \in TargetOf(step) : RefersTo(t, step.path)

----------------------------------------------------------------------------
(* C15 *)

\* C15: a target that exists when its app is placed, as a real directory
\* or as a link, is removed and then replaced by a new link or copy
C15_ExistingTargetReplaced ==
    Organized =>
        \A k \in 1..Len(org.steps) :
            org.steps[k].before # "none" =>
                /\ org.steps[k].rm = "ok"
                /\ ~PlacementFailed(org.steps[k])

----------------------------------------------------------------------------
(* C16 *)

\* C16: an organize call that follows an organize call leaves the folders
\* below base_path, and the kind of every entry in them, as they were
C16_Idempotent ==
    [][(Organized /\ last_op' = "organize") =>
           (cat_dirs' = cat_dirs /\ targets' = targets)]_vars

----------------------------------------------------------------------------
(* C17 *)

\* C17: an organize call leaves the repository tree and the catalogue as
\* they were
C17_SourcesAndCatalogueUntouched ==
    [][last_op' = "organize" =>
           (tree' = tree /\ repo_exists' = repo_exists /\ apps' = apps)]_vars

\* organize came upon a link that leads to an existing source directory and
\* called rmtree on it, and removed a real directory at another target
C17_Witness ==
    /\ Organized
    /\ tree # {}
    /\ \E k, m \in 1..Len(org.steps) :
        /\ org.steps[k].before = "link" /\ org.steps[k].rm = "failed"
        /\ org.steps[k].path \in SourceDirs(tree)
        /\ org.steps[m].before = "dir" /\ org.steps[m].rm = "ok"

----------------------------------------------------------------------------
(* C18 *)

\* C18: when organize has returned true, each of the six category folders
\* exists below base_path, and every entry in them carries the name of a
\* catalogue record of that category and is a link to, or a copy of, the
\* source directory of that record
C18_SixFoldersOfPlacements ==
    (Organized /\ org.ret) =>
        /\ cat_dirs = Range(categories)
        /\ \A t \in targets :
            \E i \in 1..Len(apps) :
                /\ apps[i].name = t.name
                /\ apps[i].category = t.category
                /\ RefersTo(t, apps[i].path)

----------------------------------------------------------------------------
(* C19 *)

\* C19: every callback of the front-end ends with a message on display and
\* lets no exception out
C19_CallbacksEndWithMessage ==
    AfterCallback => (outcome.displayed /\ ~outcome.escaped)

----------------------------------------------------------------------------
(* The front-ends: the filters of the app selector *)

\* the entries the repository can hold while the filters are used
FilterPool == {e \in EntryPool :
                   \/ e.dir = <<>> /\ e.name = "app.py"
                   \/ e.dir = <<"webdata">> /\ e.name = "main.py"
                   \/ e.dir = <<"Zeta">> /\ e.name = "util.py"}

\* the tags from position lo to position hi, the selection a
\* SelectionRangeSlider with value (categories[lo], categories[hi]) stands for
CategoryRange(lo, hi) == {categories[i] : i \in lo..hi}

\* the positions the ends of the category slider are moved to
SliderEnds == {1, 3, Len(categories)}

\* the selections the category filter of a front-end can hold
CategorySelections(front) ==
    IF front = "ipywidgets"
    THEN {CategoryRange(lo, hi) : lo \in SliderEnds, hi \in SliderEnds} \ {{}}
    ELSE {{}, {categories[1]}, {categories[1], categories[3]}, Range(categories)}

InitFilter ==
    /\ repo_exists = TRUE
    /\ tree \in {tr \in SUBSET FilterPool : Cardinality(tr) <= MaxFiles}
    /\ denied = {}
    /\ apps = <<>>
    /\ last_op = "init"
    /\ call = NoCall
    /\ InitOrganizer
    /\ \E front \in FrontEnds : InitFrontEnd(front)

\* the types the entries of the pool are classified as
TypeSelections == SUBSET {Classified[e].type : e \in FilterPool}

\* the user changes the search text or the ticks of a filter widget:
\* update_filters, update_app_selector, update_app_selector_options; only
\* the types the last scan found are on offer
FilterChange(search, cats, types) ==
    /\ cats \in CategorySelections(ui)
    /\ types \subseteq TypesOf(apps)
    /\ [search |-> search, categories |-> cats, types |-> types] # filters
    /\ LET flt == [search |-> search, categories |-> cats, types |-> types]
           w   == UpdateAppSelector(ui, apps, flt, Widgets)
       IN  /\ filters' = w.filters
           /\ selector' = w.selector
           /\ selected_app' = w.selected_app
           /\ buttons' = w.buttons
    /\ outcome' = [displayed |-> TRUE, escaped |-> FALSE]
    /\ last_op' = "filter"
    /\ UNCHANGED <<repo_exists, tree, denied, apps, call, ui, effect, orgVars>>

NextFilter ==
    \/ CategorizeApps
    \/ OpenDashboard
    \/ \E search \in SearchTexts :
          \E cats \in UNION {CategorySelections(front) : front \in FrontEnds} :
             \E types \in TypeSelections : FilterChange(search, cats, types)

SpecFilter == InitFilter /\ [][NextFilter]_vars

----------------------------------------------------------------------------
(* C20 *)

\* the names of the catalogue records that satisfy predicate Match
NamesMatching(Match(_)) ==
    {apps[i].name : i \in {j \in 1..Len(apps) : Match(apps[j])}}

\* C20 as stated: after a filter change the options of the selector are
\* the names of the records whose name contains the search text, whatever
\* the case, whose category is in the selected categories and whose type is
\* in the selected types
C20_OptionsMatchAllFilters ==
    last_op = "filter" =>
        LET search_term == Lower(filters.search)
            Match(app) == /\ Contains(search_term, Lower(app.name))
                          /\ app.category \in filters.categories
                          /\ app.type \in filters.types
        IN  Range(selector.options) = NamesMatching(Match)

\* C20 as amended: a filter with an empty selection lets every record pass
C20_OptionsMatchNonEmptyFilters ==
    last_op = "filter" =>
        LET search_term == Lower(filters.search)
            Match(app) ==
                /\ Contains(search_term, Lower(app.name))
                /\ filters.categories # {} => app.category \in filters.categories
                /\ filters.types # {} => app.type \in filters.types
        IN  Range(selector.options) = NamesMatching(Match)

\* with no category and no type ticked, the search text "WEB" left one
\* name of a catalogue of several records
C20_Witness ==
    /\ last_op = "filter"
    /\ filters.categories = {}
    /\ filters.types = {}
    /\ filters.search = "WEB"
    /\ Len(apps) > 1
    /\ selector.options = <<"webdata">>

----------------------------------------------------------------------------
(* C21 *)

\* C21: in every front-end, when a selection has left an app selected, the
\* run button can be clicked, the install button can be clicked iff the
\* app's record has a dependency manifest, and the readme button iff it has
\* a readme
C21_ActionsAvailableOnceSelected ==
    (last_op = "select" /\ selected_app # <<>>) =>
        /\ buttons.run
        /\ buttons.install <=> selected_app[1].has_requirements
        /\ buttons.readme <=> selected_app[1].has_readme

----------------------------------------------------------------------------
(* The calls of the run instructions *)

\* the app paths instructions are asked for
AppPaths == {PathStr(d) : d \in DirsOf(EntryPool)}

InstructionCalls ==
    {[fn |-> "get_app_instructions", name |-> path, type |-> t,
      files |-> PyFiles(n), done |-> FALSE, ret |-> <<>>]
        : path \in AppPaths, t \in AppTypes, n \in 0..MaxPyFiles}

\* one call of get_app_instructions: nothing but the result is written
InstructionsCall ==
    /\ call.fn = "get_app_instructions"
    /\ ~call.done
    /\ call' = [call EXCEPT !.done = TRUE,
                            !.ret = GetAppInstructions(call.type, call.name,
                                                       call.files)]
    /\ UNCHANGED <<repo_exists, tree, denied, apps, last_op, orgVars, uiVars>>

----------------------------------------------------------------------------
(* format_size *)

\* A size is held as its digits to the base 1024, lowest first, so that
\* every division by 1024.0 is exact, as it is on the floats of the code for
\* sizes below 2^53.
Base == 1024

\* the unit labels of the for loop
units == <<"B", "KB", "MB", "GB">>

RECURSIVE IntOf(_)
\* the number a digit sequence stands for
IntOf(ds) == IF ds = <<>> THEN 0 ELSE Head(ds) + Base * IntOf(Tail(ds))

RECURSIVE TimesTen(_, _)
\* ten times the fraction with digits ds (lowest first) plus carry c: the
\* digits of the fractional part and the whole part
TimesTen(ds, c) ==
    IF ds = <<>> THEN [frac |-> <<>>, whole |-> c]
    ELSE LET t    == 10 * Head(ds) + c
             rest == TimesTen(Tail(ds), t \div Base)
         IN  [frac |-> <<t % Base>> \o rest.frac, whole |-> rest.whole]

\* how a fraction with digits ds (lowest first) compares to one half
AgainstHalf(ds) ==
    IF ds = <<>> THEN "below"
    ELSE LET top == ds[Len(ds)]
         IN  IF top > Base \div 2 THEN "above"
             ELSE IF top < Base \div 2 THEN "below"
             ELSE IF \E j \in 1..(Len(ds) - 1) : ds[j] > 0 THEN "above"
             ELSE "half"

\* mutant: the value is cut off behind the first decimal place
TenthsTruncated(whole, frac) == 10 * IntOf(whole) + TimesTen(frac, 0).whole

\* the value whole + frac in tenths as '.1f' rounds it: to the nearest
\* tenth, and to the even one when two are equally near
Tenths(whole, frac) ==
    LET t    == TimesTen(frac, 0)
        down == 10 * IntOf(whole) + t.whole
        half == AgainstHalf(t.frac)
    IN  IF half = "above" \/ (half = "half" /\ down % 2 = 1) THEN down + 1
        ELSE down

\* f"{size_bytes:.1f} {unit}"
Render(whole, frac, unit) ==
    LET t == Tenths(whole, frac)
    IN  ToString(t \div 10) \o "." \o ToString(t % 10) \o " " \o unit

RECURSIVE FormatLoop(_, _, _)
\* the for loop of format_size from unit number u on; a division by 1024.0
\* moves the lowest digit of the whole part behind the point
FormatLoop(whole, frac, u) ==
    IF u > Len(units) THEN Render(whole, frac, "TB")
    ELSE IF Len(whole) <= 1 THEN Render(whole, frac, units[u])
    ELSE FormatLoop(Tail(whole), frac \o <<Head(whole)>>, u + 1)

\* format_size(size_bytes)
FormatSize(size_bytes) == FormatLoop(size_bytes, <<>>, 1)

\* the digits the sizes passed to format_size are built from: the highest
\* digit, the one below it, and the value of all the digits further down
TopDigits == {1, 5, 1023}
NextDigits == {0, 51, 256, 512, 768, 972, 1023}
LowDigits == {0, 1023}

\* the sizes passed to format_size: from 0 up to sizes of a few thousand
\* TB, none of them as large as 2^53
Sizes ==
    {<<0>>} \cup {<<top>> : top \in TopDigits}
    \cup UNION {
        {[i \in 1..len |-> IF i = len THEN top
                           ELSE IF i = len - 1 THEN nxt ELSE low]
            : top \in IF len <= Len(units) + 1 THEN TopDigits
                      ELSE {d \in TopDigits : d < 8},
              nxt \in NextDigits, low \in LowDigits}
        : len \in 2..(Len(units) + 2)}

FormatCalls ==
    {[fn |-> "format_size", name |-> "", type |-> "", size |-> n,
      done |-> FALSE, ret |-> ""] : n \in Sizes}

\* one call of format_size
FormatSizeCall ==
    /\ call.fn = "format_size"
    /\ ~call.done
    /\ call' = [call EXCEPT !.done = TRUE, !.ret = FormatSize(call.size)]
    /\ UNCHANGED <<repo_exists, tree, denied, apps, last_op, orgVars, uiVars>>

----------------------------------------------------------------------------
(* The utilities as a state machine: one pending call, then its result *)

InitUtils ==
    /\ repo_exists = FALSE
    /\ tree = {}
    /\ denied = {}
    /\ apps = <<>>
    /\ last_op = "init"
    /\ call \in InstructionCalls \cup FormatCalls
    /\ InitOrganizer
    /\ InitFrontEnd("gradio")

NextUtils == InstructionsCall \/ FormatSizeCall

SpecUtils == InitUtils /\ [][NextUtils]_vars

\* the state right after get_app_instructions returned
InstructionsGiven == call.fn = "get_app_instructions" /\ call.done

\* the state right after format_size returned
SizeFormatted == call.fn = "format_size" /\ call.done

----------------------------------------------------------------------------
(* C22 *)

\* the heading of the template stated for a runtime type
StatedHeading(type) ==
    CASE type = "streamlit" -> "**Streamlit App Detected**"
      [] type = "gradio"    -> "**Gradio App Detected**"
      [] type = "panel"     -> "**Panel App Detected**"
      [] type = "jupyter"   -> "**Jupyter Notebook Detected**"
      [] OTHER              -> "**Python App Detected**"

\* the runtime types with a template of their own
OwnTemplate == {"streamlit", "gradio", "panel", "jupyter"}

\* C22: a call of get_app_instructions returns the template stated for the
\* runtime type: for streamlit, gradio, panel and jupyter a text of their
\* own that depends on nothing else, for every other type the
\* generic-python text; the call changes nothing but its result
C22_TemplateByTypeOnly ==
    [][(call.fn = "get_app_instructions" /\ ~call.done /\ call'.done) =>
          /\ Head(call'.ret) = StatedHeading(call.type)
          /\ call.type \in OwnTemplate =>
                \A c \in InstructionCalls :
                    c.type = call.type =>
                        call'.ret = GetAppInstructions(c.type, c.name, c.files)
          /\ UNCHANGED <<repo_exists, tree, denied, apps, last_op, orgVars,
                         uiVars>>]_vars

\* instructions were given for a flask app, and they are the generic ones
C22_Witness ==
    /\ InstructionsGiven
    /\ call.type = "flask"
    /\ Head(call.ret) = "**Python App Detected**"

----------------------------------------------------------------------------
(* C23 *)

\* the positions of the lines of text that start with prefix
LinesWith(text, prefix) ==
    {i \in 1..Len(text) :
        /\ Len(text[i]) >= Len(prefix)
        /\ SubSeq(text[i], 1, Len(prefix)) = prefix}

\* C23: the generic-python instructions for an app path below which n .py
\* paths are found list min(n, 10) of them, and end with the note
\* '... and N more files', N = n - 10, exactly when n > 10
C23_ListsTenThenNote ==
    (InstructionsGiven /\ call.type \notin OwnTemplate) =>
        LET n     == Len(call.files)
            notes == LinesWith(call.ret, "... and ")
        IN  /\ Cardinality(LinesWith(call.ret, "- ")) = IF n < 10 THEN n ELSE 10
            /\ notes # {} <=> n > 10
            /\ n > 10 =>
                  /\ notes = {Len(call.ret)}
                  /\ call.ret[Len(call.ret)]
                        = "... and " \o ToString(n - 10) \o " more files"

\* twelve paths were found: ten are listed and the note counts two more
C23_Witness ==
    /\ InstructionsGiven
    /\ call.type = "python"
    /\ Len(call.files) = 12
    /\ Cardinality(LinesWith(call.ret, "- ")) = 10
    /\ call.ret[Len(call.ret)] = "... and 2 more files"

----------------------------------------------------------------------------
(* C25 *)

RECURSIVE ParseNat(_)
\* the number written in decimal digits by s
ParseNat(s) ==
    IF s = "" THEN 0
    ELSE 10 * ParseNat(SubSeq(s, 1, Len(s) - 1))
         + (CHOOSE d \in 0..9 : ToString(d) = Char(s, Len(s)))

\* the number in front of the unit of a rendered size, in tenths
RenderedTenths(s) ==
    LET dot == RFindDot(s)
    IN  10 * ParseNat(SubSeq(s, 1, dot - 1)) + ParseNat(Char(s, dot + 1))

\* the unit of a rendered size
RenderedUnit(s) == SubSeq(s, RFindDot(s) + 3, Len(s))

\* the labels in the order stated
StatedLabels == <<"B", "KB", "MB", "GB", "TB">>

\* the number of divisions stated: one for every digit to the base 1024
\* above the lowest, and no more than lead to TB
StatedDivisions(n) == IF Len(n) - 1 < 4 THEN Len(n) - 1 ELSE 4

RECURSIVE Power(_, _)
Power(b, k) == IF k = 0 THEN 1 ELSE b * Power(b, k - 1)

\* |a - b|
Distance(a, b) == IF a < b THEN b - a ELSE a - b

\* sizes small enough to be compared with their rendering in 32-bit integers
Small(n) == Len(n) <= 2 \/ (Len(n) = 3 /\ n[3] <= 5)

\* what C25 states of the rendering s of size n but for the bound on the
\* rendered value: the label reached, the value to one decimal place (no
\* further from n / 1024^k than half a tenth), and the three examples
RenderedAsStated(n, s) ==
    LET k == StatedDivisions(n)
    IN  /\ RenderedUnit(s) = StatedLabels[k + 1]
        /\ Small(n) =>
              2 * Distance(10 * IntOf(n), RenderedTenths(s) * Power(1024, k))
                 <= Power(1024, k)
        /\ n = <<0>> => s = "0.0 B"
        /\ n = <<512, 1>> => s = "1.5 KB"
        /\ n = <<0, 0, 0, 1>> => s = "1.0 GB"

\* C25 as stated: format_size renders n / 1024^k to one decimal place with
\* the label reached, 0 as '0.0 B', 1536 as '1.5 KB', 1073741824 as
\* '1.0 GB', and the rendered value is below 1024 for every n < 1024^5
C25_RenderedBelow1024 ==
    SizeFormatted =>
        /\ RenderedAsStated(call.size, call.ret)
        /\ Len(call.size) <= 5 => RenderedTenths(call.ret) < 10240

\* C25 as amended: the rendered value is at most 1024.0 for every
\* n < 1024^5
C25_RenderedAtMost1024 ==
    SizeFormatted =>
        /\ RenderedAsStated(call.size, call.ret)
        /\ Len(call.size) <= 5 => RenderedTenths(call.ret) <= 10240

\* 1048575 bytes, one byte less than a MB, are rendered as 1024.0 KB
C25_Witness ==
    /\ SizeFormatted
    /\ call.size = <<1023, 1023>>
    /\ call.ret = "1024.0 KB"

----------------------------------------------------------------------------
(* modules/app_utils.py: the scanner and the installer as functions *)

\* app_name of create_app_info_from_file: the name of the parent directory
\* is compared with itself
ModuleAppName(e) ==
    IF ParentName(e) # ParentName(e) THEN ParentName(e) ELSE Stem(e.name)

\* the fields of create_app_info_from_file's dict that depend on the file
\* path alone, computed once per entry; detect_app_type and
\* determine_category of the module repeat the methods of the class
ModuleClassified ==
    [e \in AllEntries |->
        LET app_name == ModuleAppName(e)
            app_type == DetectAppType(e.name)
        IN  [name      |-> app_name,
             path      |-> PathStr(e.dir),
             file_path |-> FilePathStr(e),
             type      |-> app_type,
             category  |-> DetermineCategory(app_name, app_type)]]

\* create_app_info_from_file(file_path)
CreateAppInfoFromFile(e) ==
    IF e.dir \in denied THEN <<>>
    ELSE LET c == ModuleClassified[e]
         IN  << [name             |-> c.name,
                 path             |-> c.path,
                 file_path        |-> c.file_path,
                 type             |-> c.type,
                 category         |-> c.category,
                 size             |-> GetFolderSize(e.dir),
                 has_requirements |-> HasRequirementsFile(e.dir),
                 has_readme       |-> HasReadmeFile(e.dir)] >>

RECURSIVE ModuleScanLoop(_, _)
\* the for loop of the module's scan_repository_for_apps
ModuleScanLoop(listing, found) ==
    IF listing = <<>> THEN found
    ELSE LET file_path == Head(listing)
             app_info == IF IsCandidate(file_path)
                         THEN CreateAppInfoFromFile(file_path)
                         ELSE <<>>
         IN  ModuleScanLoop(Tail(listing), found \o app_info)

\* scan_repository_for_apps(repo_path) of the module, on the root the class
\* scans
ModuleScanRepositoryForApps(listing) ==
    IF ~repo_exists THEN <<>>
    ELSE SortedByName(ModuleScanLoop(listing, <<>>))

\* install_app_dependencies(app_path): the module imports subprocess
InstallAppDependencies(dir) == Installer(dir, TRUE)

----------------------------------------------------------------------------
(* The functions of the module next to a front-end *)

\* one app directory with a candidate file and the four manifests
ModulePool == {e \in AllEntries : e.dir = <<"Zeta">>}

\* a repository was cloned and is left alone while a front-end is used on
\* it and the functions of the module are called
InitModule ==
    /\ repo_exists = TRUE
    /\ tree \in {t \in SUBSET ModulePool : Cardinality(t) <= MaxFiles}
    /\ denied = {}
    /\ apps = <<>>
    /\ last_op = "init"
    /\ call = NoCall
    /\ InitOrganizer
    /\ \E front \in FrontEnds : InitFrontEnd(front)

\* a call of install_app_dependencies(Path(repo_path) / dir)
InstallAppDependenciesCall(dir) ==
    /\ call' = [fn |-> "install_app_dependencies", name |-> PathStr(dir),
                type |-> "", done |-> TRUE, ret |-> InstallAppDependencies(dir)]
    /\ last_op' = "module_install"
    /\ UNCHANGED <<repo_exists, tree, denied, apps, orgVars, uiVars>>

\* a call of the module's scan_repository_for_apps(repo_path)
ModuleScanCall ==
    /\ \E listing \in Orderings(tree) :
          call' = [fn |-> "scan_repository_for_apps", name |-> RepoName,
                   type |-> "", listing |-> listing, done |-> TRUE,
                   ret |-> ModuleScanRepositoryForApps(listing)]
    /\ last_op' = "module_scan"
    /\ UNCHANGED <<repo_exists, tree, denied, apps, orgVars, uiVars>>

NextModule ==
    \/ CategorizeApps
    \/ OpenDashboard
    \/ \E name \in {Classified[e].name : e \in ModulePool} : SelectApp(name)
    \/ InstallDependencies
    \/ \E dir \in DirsOf(ModulePool) : InstallAppDependenciesCall(dir)
    \/ ModuleScanCall

SpecModule == InitModule /\ [][NextModule]_vars

\* the state right after install_app_dependencies returned
ModuleInstalled == last_op = "module_install"

\* the state right after a front-end's install_dependencies ran on an app
Installed == last_op = "install" /\ effect.op = "install" /\ effect.path # ""

----------------------------------------------------------------------------
(* C24 *)

\* the manifests in the stated order of priority
StatedPriority == <<"requirements.txt", "environment.yml", "pyproject.toml">>

\* whether name exists directly inside dir
ExistsIn(dir, name) == \E e \in tree : e.dir = dir /\ e.name = name

\* the installer's result r on directory dir is the stated one
AsStatedForInstaller(r, dir) ==
    LET present == {i \in 1..Len(StatedPriority) :
                       ExistsIn(dir, StatedPriority[i])}
    IN  /\ present = {} =>
              /\ r.picked = ""
              /\ r.text = <<"No requirements file found.">>
        /\ \A i \in present :
              (\A j \in present : i <= j) => r.picked = StatedPriority[i]
        /\ r.pip => r.picked = "requirements.txt"
        /\ r.picked \in {"environment.yml", "pyproject.toml"} =>
              /\ ~r.pip
              /\ r.text = <<"Requirements file found: " \o r.picked,
                   "Please install dependencies manually for this file type.">>

----------------------------------------------------------------------------
(* C28 *)

\* C28: where the manifest flag of an app directory is true, the installer
\* locates a manifest and does not report that no requirements file was
\* found; this for the function of the module on any directory, and for a
\* front-end's handler on a selected app whose install button is enabled
C28_FlagAndInstallerAgree ==
    /\ (ModuleInstalled /\ HasRequirementsFile(DirOfPath(call.name))) =>
          /\ call.ret.picked # ""
          /\ call.ret.text # <<"No requirements file found.">>
    /\ (/\ Installed
        /\ selected_app # <<>>
        /\ selected_app[1].has_requirements
        /\ HasRequirementsFile(DirOfPath(effect.path))
        /\ buttons.install) =>
          /\ effect.picked # ""
          /\ effect.text # <<"No requirements file found.">>

----------------------------------------------------------------------------
(* C26 *)

\* the state right after the module's scanner returned
ModuleScanned == last_op = "module_scan"

\* C26: on the same root, the same tree and the same enumeration, the
\* scanner of the module returns the catalogue the scanner of the class
\* returns, record for record
C26_ScannersEquivalent ==
    ModuleScanned => call.ret = ScanRepositoryForApps(call.listing)

----------------------------------------------------------------------------
(* C30 *)

\* the positions of the catalogue whose record carries name
Named(catalogue, name) == {i \in 1..Len(catalogue) : catalogue[i].name = name}

\* the state right after a per-app callback worked on the selected app and
\* left its report
PerAppActionUsed == /\ last_op \in {"install", "run", "readme"}
                    /\ selected_app # <<>>
                    /\ effect.op = last_op

\* C30: a record becomes selected_app only as the first record of the
\* catalogue that carries the selector's name, also when several records
\* carry it, and the install, run and readme callbacks work on the path and
\* the type of the record selected
C30_FirstOfNameSelected ==
    /\ [][(selected_app' # <<>> /\
           (last_op' = "select" \/ selected_app' # selected_app)) =>
             LET hits == Named(apps', selector'.value)
             IN  /\ hits # {}
                 /\ \E i \in hits : /\ \A j \in hits : i <= j
                                    /\ selected_app' = <<apps'[i]>>]_vars
    /\ [](PerAppActionUsed =>
             /\ effect.path = selected_app[1].path
             /\ effect.type = selected_app[1].type)

\* two records of different types carry the selected name, and a callback
\* worked on the first of them
C30_Witness ==
    /\ PerAppActionUsed
    /\ Len(apps) >= 2
    /\ apps[1].name = apps[2].name
    /\ apps[1].type # apps[2].type
    /\ selector.value = apps[1].name
    /\ selected_app = <<apps[1]>>
    /\ effect.type = apps[1].type

----------------------------------------------------------------------------
(* The organizer on records of one name in different directories *)

\* two candidate files in different directories whose records get the same
\* name and the same category
CollidePool == TwinPool \cup
    {e \in EntryPool : e.dir = <<"Ipynb-okio">> /\ e.name = "model.ipynb"}

NextCollide ==
    \/ CreateRepository
    \/ \E e \in CollidePool : AddEntry(e)
    \/ \E e \in CollidePool : RemoveEntry(e)
    \/ MakeCategoryFolders
    \/ CategorizeApps
    \/ CloneApps

SpecCollide == InitOrganize /\ [][NextCollide]_vars

----------------------------------------------------------------------------
(* C27 *)

\* the state right after an organize run in which every placement succeeded
OrganizedAllPlaced ==
    /\ Organized
    /\ \A k \in 1..Len(org.steps) : ~PlacementFailed(org.steps[k])

\* C27: after an organize run in which every placement succeeded, the entry
\* at category / name of every catalogue record is a link to, or a copy of,
\* the directory of that record, also when records of one name and one
\* category lie in different directories
C27_TargetIsOwnDirectory ==
    OrganizedAllPlaced =>
        \A i \in 1..Len(apps) :
            \E t \in TargetAt(targets, apps[i].category, apps[i].name) :
                RefersTo(t, apps[i].path)

----------------------------------------------------------------------------
(* One PanelAppStoreUI session: the triggers as buttons *)

InitPanel ==
    /\ repo_exists = FALSE
    /\ tree = {}
    /\ denied = {}
    /\ apps = <<>>
    /\ last_op = "init"
    /\ call = NoCall
    /\ InitOrganizer
    /\ InitFrontEnd("panel")

\* a click on the Categorize button whose scan returns
ClickCategorize ==
    /\ buttons.categorize
    /\ CategorizeApps

\* a click on the Categorize button whose scan raises, as is_file() does
\* with PermissionError: the button is disabled, the assignment to
\* self.core.apps is not reached, the except clause reports and enables the
\* button again
ClickCategorizeRaises ==
    /\ buttons.categorize
    /\ repo_exists
    /\ buttons' = [[buttons EXCEPT !.categorize = FALSE]
                      EXCEPT !.categorize = TRUE]
    /\ outcome' = [displayed |-> TRUE, escaped |-> FALSE]
    /\ effect' = NoEffect
    /\ last_op' = "scan_raised"
    /\ org' = NoOrg
    /\ UNCHANGED <<repo_exists, tree, denied, apps, call, ui, selector,
                   filters, selected_app, repo_abs, cat_dirs, targets>>

\* a click on the Clone button
ClickClone ==
    /\ buttons.clone
    /\ CloneApps

NextPanel ==
    \/ CreateRepository
    \/ \E e \in UIPool : AddEntry(e)
    \/ \E e \in UIPool : RemoveEntry(e)
    \/ ClickCategorize
    \/ ClickCategorizeRaises
    \/ ClickClone

SpecPanel == InitPanel /\ [][NextPanel]_vars

----------------------------------------------------------------------------
(* C29 *)

\* C29: in a PanelAppStoreUI session the Categorize button, once a scan
\* completed, stays disabled, and a scan that raises leaves it enabled and
\* the catalogue as it was; the Clone button is disabled by the click and
\* enabled only by a scan that completed; so the catalogue is replaced by
\* one completed scan at most, and organize runs once at most after it
C29_TriggersRunOnce ==
    /\ [][~buttons.categorize => ~buttons'.categorize]_vars
    /\ [][last_op' = "scan" => buttons.categorize /\ ~buttons'.categorize]_vars
    /\ [][last_op' = "scan_raised" => buttons'.categorize /\ apps' = apps]_vars
    /\ [][apps' # apps => last_op' = "scan"]_vars
    /\ [][last_op' = "organize" => buttons.clone /\ ~buttons'.clone]_vars
    /\ [][(~buttons.clone /\ buttons'.clone) => last_op' = "scan"]_vars
    /\ [][(~buttons.categorize /\ ~buttons.clone) =>
              last_op' \notin {"scan", "organize"}]_vars

\* a scan raised, the next one completed, and organize ran on its
\* catalogue: both triggers are disabled
C29_Witness ==
    /\ ui = "panel"
    /\ Organized
    /\ Len(apps) > 0
    /\ ~buttons.categorize
    /\ ~buttons.clone
====
